---- MODULE Spec2Model ----
(***************************************************************************)
(* A model of alpaca_trade_api/stream2.py: class StreamConn, the router    *)
(* that multiplexes the events socket, the data socket and the polygon     *)
(* feed client behind subscribe / register / close.                        *)
(*                                                                         *)
(* Strings whose characters the code inspects (channel names, routing      *)
(* keys, pattern texts) are sequences of one-character strings.            *)
(* Every step of the model is one run of a coroutine between two           *)
(* suspension points (await of connect, send, recv, close, or a handler).  *)
(***************************************************************************)
EXTENDS Integers, Sequences, FiniteSets, TLC

\* ------------------------------------------------------------------ bounds
MaxSub == 2      \* subscribe() calls made by the caller
MaxSock == 3     \* sockets opened by websockets.connect
MaxClose == 2    \* close() calls made by the caller
MaxMsg == 1      \* inbound stream / feed messages delivered
MaxReg == 2      \* register() / deregister() calls made by the caller
MaxFrag == 2     \* fragments concatenated into a channel name (classifier inputs)
MaxTableOps == 3 \* register() / deregister() calls when only the table is exercised
MaxOrderMsg == 3 \* inbound messages when the order of dispatch is exercised

\* self._ws = None: the absent handle; sockets are 1..MaxSock
None == 0

\* ----------------------------------------------------------------- strings
s_trade_updates == <<"t", "r", "a", "d", "e", "_", "u", "p", "d", "a", "t", "e", "s">>
s_account_updates == <<"a", "c", "c", "o", "u", "n", "t", "_", "u", "p", "d", "a", "t", "e", "s">>
s_T_AAPL == <<"T", ".", "A", "A", "P", "L">>
s_bars_AAPL == <<"b", "a", "r", "s", "/", "A", "A", "P", "L">>
s_authorized == <<"a", "u", "t", "h", "o", "r", "i", "z", "e", "d">>
s_dotstar == <<".", "*">>
s_trade == <<"t", "r", "a", "d", "e">>

\* ---------------------------------------------------- channel classifier
\* str.startswith(p)
StartsWith(c, p) == Len(c) >= Len(p) /\ SubSeq(c, 1, Len(p)) = p

NatsPrefixes == {<<"Q", ".">>, <<"T", ".">>, <<"A", ".">>, <<"A", "M", ".">>}

DataPrefixes == {<<"b", "a", "r", "s", "/">>, <<"i", "e", "x", "/">>, <<"s", "i", "p", "/">>}

\* (mutant) the prefixes are looked for anywhere in the name
Contains(c, p) == \E k \in 1..Len(c) : StartsWith(SubSeq(c, k, Len(c)), p)

ClassifyAnywhere(c) ==
    IF \E p \in NatsPrefixes : Contains(c, p) THEN "feed"
    ELSE IF \E p \in DataPrefixes : Contains(c, p) THEN "data"
    ELSE "events"

\* the if / elif / else of subscribe's loop body
Classify(c) ==
    IF \E p \in NatsPrefixes : StartsWith(c, p) THEN "feed"
    ELSE IF \E p \in DataPrefixes : StartsWith(c, p) THEN "data"
    ELSE "events"

\* (mutant) the loop inserts each channel at the front of its list
RECURSIVE PartitionLoopInsertFront(_, _, _)
PartitionLoopInsertFront(channels, i, acc) ==
    IF i > Len(channels) THEN acc
    ELSE LET c == channels[i]
             k == Classify(c)
         IN PartitionLoopInsertFront(channels, i + 1, [acc EXCEPT ![k] = <<c>> \o @])

\* the for loop of subscribe: each channel appended to the list of its class
RECURSIVE PartitionLoop(_, _, _)
PartitionLoop(channels, i, acc) ==
    IF i > Len(channels) THEN acc
    ELSE LET c == channels[i]
             k == Classify(c)
         IN PartitionLoop(channels, i + 1, [acc EXCEPT ![k] = Append(@, c)])

Partition(channels) ==
    PartitionLoop(channels, 1, [events |-> <<>>, data |-> <<>>, feed |-> <<>>])

\* ------------------------------------------------------------- patterns
\* re.compile(text): "." is any character, ".*" any run of characters,
\* every other character of the texts used here is a literal
RECURSIVE CompileFrom(_, _)
CompileFrom(text, i) ==
    IF i > Len(text) THEN <<>>
    ELSE IF text[i] = "." /\ i < Len(text) /\ text[i + 1] = "*"
         THEN <<"STAR">> \o CompileFrom(text, i + 2)
    ELSE IF text[i] = "." THEN <<"ANY">> \o CompileFrom(text, i + 1)
    ELSE <<text[i]>> \o CompileFrom(text, i + 1)

Compile(text) == CompileFrom(text, 1)

\* pat.match(s): the pattern matches a prefix of s, anchored at its start
RECURSIVE MatchFrom(_, _, _, _)
MatchFrom(pat, i, s, j) ==
    IF i > Len(pat) THEN TRUE
    ELSE IF pat[i] = "STAR" THEN \E k \in j..(Len(s) + 1) : MatchFrom(pat, i + 1, s, k)
    ELSE IF j > Len(s) THEN FALSE
    ELSE IF pat[i] = "ANY" THEN MatchFrom(pat, i + 1, s, j + 1)
    ELSE pat[i] = s[j] /\ MatchFrom(pat, i + 1, s, j + 1)

Match(pat, s) == MatchFrom(pat, 1, s, 1)


\* --------------------------------------------------------------- inputs
\* channel lists the caller passes to subscribe()
SubInputs ==
    { <<s_trade_updates>>, <<s_bars_AAPL>>, <<s_T_AAPL>>,
      <<s_trade_updates, s_T_AAPL, s_bars_AAPL, s_account_updates>> }

\* pattern texts the caller registers, and the handler functions
PatternTexts == {s_dotstar, s_T_AAPL, s_trade, s_authorized}

\* on_msg returns, on_raise raises; plain_func is not a coroutine function
Funcs == {"on_msg", "on_raise", "plain_func"}

\* routing keys of inbound messages ("stream" of a socket message, subject
\* of a feed message); NoStream is a message without a "stream" key
NoStream == <<>>

StreamKeys == {s_trade_updates, s_account_updates, s_T_AAPL, NoStream}

\* the answers to the authenticate request
AuthMsgs ==
    { [has_data |-> TRUE, status |-> "authorized"],
      [has_data |-> TRUE, status |-> "unauthorized"],
      [has_data |-> FALSE, status |-> "none"] }

NoMsg == [has_data |-> FALSE, status |-> "unread"]

Subs == 1..MaxSub

Socks == 1..MaxSock

ClassOrder == <<"events", "data", "feed">>

DSub(t) == <<"sub", t>>

DLoop(s) == <<"loop", s>>

DNats == <<"nats", 1>>

Dispatchers == {DSub(t) : t \in Subs} \cup {DLoop(s) : s \in Socks} \cup {DNats}

\* ---------------------------------------------------------------- state
VARIABLES
    ws,          \* self._ws: None or a socket
    data_ws,     \* self._data_ws: None or a socket
    polygon,     \* self.polygon: None or the feed client (1)
    handlers,    \* self._handlers: the dict's entries in insertion order
    socks,       \* every socket websockets.connect returned
    feed,        \* the polygon.Stream client
    sub,         \* the subscribe() coroutines
    disp,        \* the running _dispatch / _dispatch_nats iterations
    closer,      \* the close() coroutine
    count,       \* calls and messages so far (bounds the run)
    cl_frags,    \* classifier check: the fragments of the channel name
    cl_out       \* classifier check: the class computed for the name

vars == <<ws, data_ws, polygon, handlers, socks, feed, sub, disp, closer, count,
          cl_frags, cl_out>>

rvars == <<ws, data_ws, polygon, handlers, socks, feed, sub, disp, closer, count>>

cvars == <<cl_frags, cl_out>>

\* the router's state as one value, so that a method is a function on it
Cur ==
    [ws |-> ws, data_ws |-> data_ws, polygon |-> polygon, handlers |-> handlers,
     socks |-> socks, feed |-> feed, sub |-> sub, disp |-> disp,
     closer |-> closer, count |-> count]

Commit(R) ==
    /\ ws' = R.ws
    /\ data_ws' = R.data_ws
    /\ polygon' = R.polygon
    /\ handlers' = R.handlers
    /\ socks' = R.socks
    /\ feed' = R.feed
    /\ sub' = R.sub
    /\ disp' = R.disp
    /\ closer' = R.closer
    /\ count' = R.count
    /\ UNCHANGED cvars

NoEntry == [pat |-> <<>>, func |-> "none", live |-> FALSE]

IdleIter ==
    [st |-> "idle", channel |-> <<>>, pos |-> 1, di_used |-> 0, len |-> 0,
     cur |-> NoEntry, calls |-> <<>>, table |-> <<>>, mutated |-> FALSE,
     error |-> "none", nats |-> FALSE]

FreeSock ==
    [state |-> "free", endpoint |-> "none", sent |-> <<>>, loop |-> "none",
     resp |-> NoMsg, by |-> 0, authorized |-> 0, log |-> <<>>]

IdleSub ==
    [pc |-> "idle", channels |-> <<>>, cls |-> "none", sock |-> None,
     attempted |-> {}, foundOpen |-> {}, err |-> "none"]

\* the last register / deregister call the caller made
NoCall == [op |-> "none", text |-> <<>>, func |-> "none"]

\* __init__
Init ==
    /\ ws = None
    /\ data_ws = None
    /\ polygon = None
    /\ handlers = <<>>
    /\ socks = [s \in Socks |-> FreeSock]
    /\ feed = [state |-> "none", regs |-> 0, subs |-> <<>>, by |-> 0]
    /\ sub = [t \in Subs |-> IdleSub]
    /\ disp = [d \in Dispatchers |-> IdleIter]
    /\ closer = [pc |-> "idle", run |-> 0, second |-> {}, secondFeed |-> FALSE,
                 raised |-> FALSE]
    /\ count = [msg |-> 0, reg |-> 0, close |-> 0, overlap |-> FALSE, regErr |-> "none",
                last |-> NoCall]
    /\ cl_frags = <<>>
    /\ cl_out = "none"


\* ------------------------------------------------------ the handler dict
\* A dict keeps its entries in insertion order; del leaves a dummy entry in
\* place (live = FALSE) and a new key is appended.  The table here never
\* holds more keys than a dict holds before it is resized.
Used(tbl) == Cardinality({i \in 1..Len(tbl) : tbl[i].live})

RECURSIVE NextLive(_, _)
NextLive(tbl, i) ==
    IF i > Len(tbl) \/ tbl[i].live THEN i ELSE NextLive(tbl, i + 1)

\* (mutant) every key finds the first entry of the table
KeyIndexAnyLive(tbl, key) ==
    IF \E i \in 1..Len(tbl) : tbl[i].live
    THEN CHOOSE i \in 1..Len(tbl) : tbl[i].live /\ \A j \in 1..(i - 1) : ~tbl[j].live
    ELSE 0

\* self._handlers[key]: the slot of the entry whose key equals key, if any
KeyIndex(tbl, key) ==
    IF \E i \in 1..Len(tbl) : tbl[i].live /\ tbl[i].pat = key
    THEN CHOOSE i \in 1..Len(tbl) : tbl[i].live /\ tbl[i].pat = key
    ELSE 0

\* (mutant) register() takes any callable
IsAnyFunction(func) == TRUE

\* asyncio.iscoroutinefunction(func)
IsCoroutineFunction(func) == func # "plain_func"

\* what a handler does when awaited
Raises(func) == func = "on_raise"

\* a mutation of the table is seen by every iteration that is suspended
MarkMutated(R) ==
    [R EXCEPT !.disp = [d \in Dispatchers |->
        IF R.disp[d].st = "handler" THEN [R.disp[d] EXCEPT !.mutated = TRUE]
        ELSE R.disp[d]]]

\* register(channel_pat, func)
register(R, text, func) ==
    IF ~IsCoroutineFunction(func)
    THEN [R EXCEPT !.count.regErr = "ValueError"]
    ELSE LET key == Compile(text)
             i == KeyIndex(R.handlers, key)
             tbl == IF i = 0
                    THEN Append(R.handlers, [pat |-> key, func |-> func, live |-> TRUE])
                    ELSE [R.handlers EXCEPT ![i].func = func]
         IN [MarkMutated(R) EXCEPT !.handlers = tbl, !.count.regErr = "none"]

\* deregister(channel_pat)
deregister(R, text) ==
    LET key == Compile(text)
        i == KeyIndex(R.handlers, key)
    IN IF i = 0
       THEN [R EXCEPT !.count.regErr = "KeyError"]
       ELSE [MarkMutated(R) EXCEPT !.handlers[i].live = FALSE,
                                   !.count.regErr = "none"]

\* _cast(channel, msg)
cast(channel) == IF channel = s_account_updates THEN "Account" ELSE "Entity"

\* (mutant) the loop returns after the first handler it awaited
RECURSIVE DictNextFirstOnly(_, _, _)
DictNextFirstOnly(tbl, it, strict) ==
    LET i == NextLive(tbl, it.pos)
    IN IF i > Len(tbl) \/ Len(it.calls) > 0 THEN [it EXCEPT !.st = "end", !.cur = NoEntry]
       ELSE LET it2 == [it EXCEPT !.pos = i + 1]
            IN IF Match(tbl[i].pat, it.channel)
               THEN [it2 EXCEPT !.st = "handler", !.cur = tbl[i],
                       !.calls = Append(@, [pat |-> tbl[i].pat, func |-> tbl[i].func,
                                            channel |-> it.channel, ent |-> "Entity"])]
               ELSE DictNextFirstOnly(tbl, it2, strict)

\* One turn of "for pat, handler in self._handlers.items()": next() on the
\* dict iterator, then the body.  The result is suspended in a handler,
\* at the end of the table, or failed.  strict: the interpreter also fails
\* when it finds an entry after it has yielded as many as the dict held
\* ("dictionary keys changed during iteration").
RECURSIVE DictNext(_, _, _)
DictNext(tbl, it, strict) ==
    IF it.di_used # Used(tbl)
    THEN [it EXCEPT !.st = "error", !.error = "RuntimeError", !.cur = NoEntry]
    ELSE LET i == NextLive(tbl, it.pos)
         IN IF i > Len(tbl) THEN [it EXCEPT !.st = "end", !.cur = NoEntry]
            ELSE IF it.len = 0 /\ strict
            THEN [it EXCEPT !.st = "error", !.error = "RuntimeError", !.cur = NoEntry]
            ELSE LET it2 == [it EXCEPT !.pos = i + 1,
                                       !.len = IF @ > 0 THEN @ - 1 ELSE 0]
                 IN IF Match(tbl[i].pat, it.channel)
                    THEN [it2 EXCEPT !.st = "handler", !.cur = tbl[i],
                            !.calls = Append(@,
                                [pat |-> tbl[i].pat, func |-> tbl[i].func,
                                 channel |-> it.channel,
                                 ent |-> IF it.nats THEN "data"
                                         ELSE cast(it.channel)])]
                    ELSE DictNext(tbl, it2, strict)

\* _dispatch(channel, msg) / _dispatch_nats(conn, subject, data), up to its
\* first await
DispatchStart(tbl, channel, nats, strict) ==
    DictNext(tbl,
             [IdleIter EXCEPT !.channel = channel, !.di_used = Used(tbl),
                              !.len = Used(tbl), !.table = tbl, !.nats = nats],
             strict)

\* the awaited handler has finished: it raised, or the loop goes on
DispatchResume(tbl, it, strict) ==
    IF Raises(it.cur.func)
    THEN [it EXCEPT !.st = "error", !.error = "handler", !.cur = NoEntry]
    ELSE DictNext(tbl, it, strict)


\* ------------------------------------------------------------ subscribe
ListenReq(streams) == [action |-> "listen", streams |-> streams]

AuthReq == [action |-> "authenticate", streams |-> <<>>]

Handle(R, c) == IF c = "events" THEN R.ws ELSE R.data_ws

\* (mutant) the early return is missing: the connection is always made
AbsentAlways(h) == TRUE

\* "if self._ws is not None: return" and its two siblings: the connection
\* is made only when the handle is absent
Absent(h) == h = None

\* (mutant) a message without 'data' is let through
AuthRefusedOnlyWithData(msg) == msg.has_data /\ msg.status # "authorized"

\* 'data' not in msg or msg['data']['status'] != 'authorized'
AuthRefused(msg) == ~msg.has_data \/ msg.status # "authorized"

Fail(R, t, err) == [R EXCEPT !.sub[t].pc = "failed", !.sub[t].err = err]

\* every step of a subscribe() ends a run of consecutive close() calls
Touch(R) == [R EXCEPT !.closer.run = 0]

NumSocks(R) == Cardinality({s \in Socks : R.socks[s].state # "free"})

ClassIndex(c) == CHOOSE i \in 1..3 : ClassOrder[i] = c

RECURSIVE NextClassIndex(_, _)
NextClassIndex(parts, i) ==
    IF i > 3 \/ Len(parts[ClassOrder[i]]) > 0 THEN i
    ELSE NextClassIndex(parts, i + 1)

\* await self._ws.send(json.dumps({'action': 'listen', ...})), written to
\* the socket the handle names when the send starts
send_listen(R, t, h, streams) ==
    IF R.socks[h].state = "open"
    THEN [R EXCEPT !.socks[h].sent = Append(@, ListenReq(streams)),
                   !.sub[t].pc = "sent"]
    ELSE Fail(R, t, "ConnectionClosed")

\* await self.polygon.subscribe(nats_channels)
polygon_subscribe(R, t, streams) ==
    [R EXCEPT !.feed.subs = Append(@, [channels |-> streams, state |-> R.feed.state]),
              !.sub[t].pc = "sent"]

\* _ensure_nats up to "await self.polygon.connect()", or straight to the
\* subscribe call when self.polygon is set
ensure_nats(R, t, streams) ==
    IF Absent(R.polygon)
    THEN [R EXCEPT !.polygon = 1, !.feed.state = "created", !.feed.regs = @ + 1,
                   !.feed.by = t, !.sub[t].pc = "feed_connecting"]
    ELSE polygon_subscribe(R, t, streams)

\* _ensure_ws / _ensure_data_ws up to "await websockets.connect(...)", or
\* straight to the listen request when the handle is set
ensure_ws(R, t, c, streams) ==
    IF Absent(Handle(R, c))
    THEN [R EXCEPT !.sub[t].pc = "connecting"]
    ELSE send_listen(R, t, Handle(R, c), streams)

\* subscribe(), from the "if len(...) > 0" of class number `from` to its
\* next await
subscribe_from(R, t, from) ==
    LET parts == Partition(R.sub[t].channels)
        i == NextClassIndex(parts, from)
    IN IF i > 3 THEN [R EXCEPT !.sub[t].pc = "done", !.sub[t].cls = "none"]
       ELSE LET c == ClassOrder[i]
                h == IF c = "feed" THEN R.polygon ELSE Handle(R, c)
                R1 == [R EXCEPT !.sub[t].cls = c,
                                !.sub[t].attempted = @ \cup {c},
                                !.sub[t].foundOpen = IF h # None THEN @ \cup {c} ELSE @]
            IN IF c = "feed" THEN ensure_nats(R1, t, parts[c])
               ELSE ensure_ws(R1, t, c, parts[c])

\* websockets.connect returned a socket; _connect sends the authenticate
\* request and awaits the answer
connected(R, t) ==
    LET s == NumSocks(R) + 1
    IN [R EXCEPT !.socks[s] = [FreeSock EXCEPT !.state = "open",
                                               !.endpoint = R.sub[t].cls,
                                               !.sent = <<AuthReq>>,
                                               !.by = t],
                 !.sub[t].sock = s,
                 !.sub[t].pc = "authing"]

\* the rest of _connect after the dispatch, then the caller's handle
\* assignment and the listen request of subscribe (no await in between)
connect_done(R, t) ==
    LET s == R.sub[t].sock
        c == R.sub[t].cls
        R1 == [R EXCEPT !.socks[s].loop = "running"]
        R2 == IF c = "events" THEN [R1 EXCEPT !.ws = s] ELSE [R1 EXCEPT !.data_ws = s]
    IN send_listen(R2, t, Handle(R2, c), Partition(R.sub[t].channels)[c])

\* where subscribe stands once the 'authorized' dispatch stops
after_authorized(R, t) ==
    LET it == R.disp[DSub(t)]
    IN IF it.st = "handler" THEN [R EXCEPT !.sub[t].pc = "handler"]
       ELSE IF it.st = "error" THEN Fail(R, t, it.error)
       ELSE connect_done(R, t)

\* _connect from the answer to the authenticate request on
connect(R, t, msg, strict) ==
    LET s == R.sub[t].sock
        R1 == [R EXCEPT !.socks[s].resp = msg]
    IN IF AuthRefused(msg) THEN Fail(R1, t, "ValueError")
       ELSE LET R2 == [R1 EXCEPT !.ws = s, !.socks[s].authorized = @ + 1]
                it == DispatchStart(R2.handlers, s_authorized, FALSE, strict)
            IN after_authorized([R2 EXCEPT !.disp[DSub(t)] = it], t)

\* await self.polygon.connect() returned
nats_connected(R, t) ==
    LET R1 == [R EXCEPT !.feed.state = IF @ = "created" THEN "connected" ELSE @]
    IN polygon_subscribe(R1, t, Partition(R.sub[t].channels)["feed"])

InProgress(pc) == pc \notin {"idle", "done", "failed"}

SubscribeCall(t) ==
    /\ sub[t].pc = "idle"
    /\ IF t = 1 THEN TRUE ELSE sub[t - 1].pc # "idle"
    /\ \E channels \in SubInputs :
         Commit(subscribe_from(
             Touch([Cur EXCEPT !.sub[t].channels = channels,
                               !.count.overlap =
                                   @ \/ \E u \in Subs : InProgress(sub[u].pc)]),
             t, 1))

SubSendDone(t) ==
    /\ sub[t].pc = "sent"
    /\ Commit(subscribe_from(Touch(Cur), t, ClassIndex(sub[t].cls) + 1))

SubConnected(t) ==
    /\ sub[t].pc = "connecting"
    /\ NumSocks(Cur) < MaxSock
    /\ Commit(connected(Touch(Cur), t))

SubConnectFailed(t) ==
    /\ sub[t].pc = "connecting"
    /\ Commit(Fail(Touch(Cur), t, "ConnectError"))

SubAuthRecv(t) ==
    /\ sub[t].pc = "authing"
    /\ \E msg \in AuthMsgs, strict \in BOOLEAN :
         Commit(connect(Touch(Cur), t, msg, strict))

SubHandlerDone(t) ==
    /\ sub[t].pc = "handler"
    /\ \E strict \in BOOLEAN :
         Commit(after_authorized(
             Touch([Cur EXCEPT !.disp[DSub(t)] =
                        DispatchResume(handlers, disp[DSub(t)], strict)]), t))

NatsConnected(t) ==
    /\ sub[t].pc = "feed_connecting"
    /\ Commit(nats_connected(Touch(Cur), t))

NatsConnectFailed(t) ==
    /\ sub[t].pc = "feed_connecting"
    /\ Commit(Fail(Touch([Cur EXCEPT !.feed.state = IF @ = "created" THEN "failed" ELSE @]),
                   t, "ConnectError"))


\* -------------------------------------------------------- _consume_msg
\* "finally: await ws.close()": the loop is leaving
loop_exit(R, s) ==
    [R EXCEPT !.socks[s].loop = "closing",
              !.socks[s].state = "closed"]

\* after the close: "if self._data_ws == ws: ... else: self._ws = None"
loop_cleanup(R, s) ==
    LET R1 == [R EXCEPT !.socks[s].loop = "done"]
    IN IF R.data_ws = s THEN [R1 EXCEPT !.data_ws = None]
       ELSE [R1 EXCEPT !.ws = None]

\* (mutant) the loop does not wait for the handler it called
loop_after_no_wait(R, s) ==
    LET it == R.disp[DLoop(s)]
    IN IF it.st = "handler"
       THEN [R EXCEPT !.socks[s].loop = "running", !.socks[s].log = Append(@, "call")]
       ELSE IF it.st = "error" THEN loop_exit(R, s)
       ELSE [R EXCEPT !.socks[s].loop = "running"]

\* where the loop stands once a dispatch stops
loop_after(R, s) ==
    LET it == R.disp[DLoop(s)]
    IN IF it.st = "handler"
       THEN [R EXCEPT !.socks[s].loop = "handler", !.socks[s].log = Append(@, "call")]
       ELSE IF it.st = "error" THEN loop_exit(R, s)
       ELSE [R EXCEPT !.socks[s].loop = "running"]

\* one message read by the loop: msg.get('stream'), then the dispatch
consume_msg(R, s, stream, strict) ==
    LET R1 == [R EXCEPT !.count.msg = @ + 1,
                        !.socks[s].log = Append(@, IF stream = NoStream THEN "skip"
                                                   ELSE "recv")]
    IN IF stream = NoStream THEN R1
       ELSE loop_after([R1 EXCEPT !.disp[DLoop(s)] =
                            DispatchStart(R.handlers, stream, FALSE, strict)], s)

\* ws.recv() returns one of at most n messages
LoopRecvUpTo(s, n) ==
    /\ socks[s].loop = "running"
    /\ socks[s].state = "open"
    /\ count.msg < n
    /\ \E stream \in StreamKeys, strict \in BOOLEAN :
         Commit(consume_msg(Cur, s, stream, strict))

LoopRecv(s) == LoopRecvUpTo(s, MaxMsg)

LoopHandlerDone(s) ==
    /\ socks[s].loop = "handler"
    /\ \E strict \in BOOLEAN :
         Commit(loop_after(
             [Cur EXCEPT !.disp[DLoop(s)] =
                             DispatchResume(handlers, disp[DLoop(s)], strict),
                         !.socks[s].log =
                             Append(@, IF Raises(disp[DLoop(s)].cur.func) THEN "raise"
                                       ELSE "ret")], s))

\* ws.recv() raises (the socket was closed, here or by the peer) or the
\* payload does not decode
LoopFail(s) ==
    /\ socks[s].loop = "running"
    /\ Commit(loop_exit(Cur, s))

LoopCleanup(s) ==
    /\ socks[s].loop = "closing"
    /\ Commit(loop_cleanup(Cur, s))

\* ------------------------------------------------------- _dispatch_nats
\* the feed client calls the catch-all handler it was given with a subject
NatsMsg ==
    /\ feed.state = "connected"
    /\ feed.regs > 0
    /\ disp[DNats].st # "handler"
    /\ count.msg < MaxMsg
    /\ \E subject \in StreamKeys \ {NoStream}, strict \in BOOLEAN :
         Commit([Cur EXCEPT !.count.msg = @ + 1,
                            !.disp[DNats] =
                                DispatchStart(handlers, subject, TRUE, strict)])

NatsHandlerDone ==
    /\ disp[DNats].st = "handler"
    /\ \E strict \in BOOLEAN :
         Commit([Cur EXCEPT !.disp[DNats] =
                     DispatchResume(handlers, disp[DNats], strict)])

\* ---------------------------------------------------------------- close
\* (mutant) close() calls close on a handle without looking at it
IsSetAlways(h) == TRUE

\* "if self._ws is not None" and its two siblings
IsSet(h) == h # None

\* await h.close() on a socket handle; closing a closed socket does nothing
close_ws(R, h) ==
    IF h = None THEN [R EXCEPT !.closer.raised = TRUE, !.closer.pc = "raised"]
    ELSE IF R.socks[h].state = "open"
    THEN [R EXCEPT !.socks[h].state = "closed",
                   !.closer.second = IF R.closer.run >= 2 THEN @ \cup {h} ELSE @]
    ELSE R

\* await self.polygon.close()
close_polygon(R) ==
    IF R.polygon = None THEN [R EXCEPT !.closer.raised = TRUE, !.closer.pc = "raised"]
    ELSE IF R.feed.state # "closed"
    THEN [R EXCEPT !.feed.state = "closed",
                   !.closer.secondFeed = @ \/ R.closer.run >= 2]
    ELSE R

\* close(), from its if number `stage` to its next await
RECURSIVE close_from(_, _)
close_from(R, stage) ==
    IF stage > 3 THEN [R EXCEPT !.closer.pc = "idle"]
    ELSE LET h == IF stage = 1 THEN R.ws ELSE IF stage = 2 THEN R.data_ws ELSE R.polygon
         IN IF IsSet(h)
            THEN LET R1 == IF stage = 3 THEN close_polygon(R) ELSE close_ws(R, h)
                 IN IF R1.closer.pc = "raised" THEN [R1 EXCEPT !.closer.pc = "idle"]
                    ELSE [R1 EXCEPT !.closer.pc = ClassOrder[stage]]
            ELSE close_from(R, stage + 1)

CloseCall ==
    /\ closer.pc = "idle"
    /\ count.close < MaxClose
    /\ Commit(close_from([Cur EXCEPT !.count.close = @ + 1, !.closer.run = @ + 1], 1))

CloseResume ==
    /\ closer.pc # "idle"
    /\ Commit(close_from(Cur, ClassIndex(closer.pc) + 1))

\* ------------------------------------------------ register / deregister
\* one of at most n register / deregister calls of the caller
RegisterUpTo(n) ==
    /\ count.reg < n
    /\ \E text \in PatternTexts, func \in Funcs :
         Commit(register(
             [Cur EXCEPT !.count.reg = @ + 1,
                         !.count.last = [op |-> "register", text |-> text, func |-> func]],
             text, func))

DeregisterUpTo(n) ==
    /\ count.reg < n
    /\ \E text \in PatternTexts :
         Commit(deregister(
             [Cur EXCEPT !.count.reg = @ + 1,
                         !.count.last = [op |-> "deregister", text |-> text,
                                         func |-> "none"]],
             text))

Register == RegisterUpTo(MaxReg)

Deregister == DeregisterUpTo(MaxReg)

\* -------------------------------------------------------- specification
Next ==
    \/ \E t \in Subs : SubscribeCall(t)
    \/ \E t \in Subs : SubSendDone(t)
    \/ \E t \in Subs : SubConnected(t)
    \/ \E t \in Subs : SubConnectFailed(t)
    \/ \E t \in Subs : SubAuthRecv(t)
    \/ \E t \in Subs : SubHandlerDone(t)
    \/ \E t \in Subs : NatsConnected(t)
    \/ \E t \in Subs : NatsConnectFailed(t)
    \/ \E s \in Socks : LoopRecv(s)
    \/ \E s \in Socks : LoopHandlerDone(s)
    \/ \E s \in Socks : LoopFail(s)
    \/ \E s \in Socks : LoopCleanup(s)
    \/ NatsMsg
    \/ NatsHandlerDone
    \/ CloseCall
    \/ CloseResume
    \/ Register
    \/ Deregister

Spec == Init /\ [][Next]_vars


\* The full state graph of Spec is large; each specification below fixes
\* which calls the caller makes and leaves every method as it is.

\* the caller registers at most one handler, then makes subscribe() calls
\* that may overlap; read loops end at any time
RegisterFirst ==
    /\ \A t \in Subs : sub[t].pc = "idle"
    /\ count.reg < 1
    /\ Register

NextSubscribe ==
    \/ RegisterFirst
    \/ \E t \in Subs : SubscribeCall(t)
    \/ \E t \in Subs : SubSendDone(t)
    \/ \E t \in Subs : SubConnected(t)
    \/ \E t \in Subs : SubConnectFailed(t)
    \/ \E t \in Subs : SubAuthRecv(t)
    \/ \E t \in Subs : SubHandlerDone(t)
    \/ \E t \in Subs : NatsConnected(t)
    \/ \E t \in Subs : NatsConnectFailed(t)
    \/ \E s \in Socks : LoopFail(s)
    \/ \E s \in Socks : LoopCleanup(s)

SpecSubscribe == Init /\ [][NextSubscribe]_vars

\* the caller awaits each subscribe() before the next call, and calls
\* close() at any time; no handler is registered
SubscribeInTurn(t) ==
    /\ \A u \in Subs : ~InProgress(sub[u].pc)
    /\ SubscribeCall(t)

NextClose ==
    \/ \E t \in Subs : SubscribeInTurn(t)
    \/ \E t \in Subs : SubSendDone(t)
    \/ \E t \in Subs : SubConnected(t)
    \/ \E t \in Subs : SubConnectFailed(t)
    \/ \E t \in Subs : SubAuthRecv(t)
    \/ \E t \in Subs : NatsConnected(t)
    \/ \E t \in Subs : NatsConnectFailed(t)
    \/ \E s \in Socks : LoopFail(s)
    \/ \E s \in Socks : LoopCleanup(s)
    \/ CloseCall
    \/ CloseResume

SpecClose == Init /\ [][NextClose]_vars

\* the caller registers and deregisters handlers at any time and makes one
\* subscribe() call whose connects succeed; messages arrive
NextDispatch ==
    \/ Register
    \/ Deregister
    \/ SubscribeCall(1)
    \/ SubSendDone(1)
    \/ SubConnected(1)
    \/ SubAuthRecv(1)
    \/ SubHandlerDone(1)
    \/ NatsConnected(1)
    \/ \E s \in Socks : LoopRecv(s)
    \/ \E s \in Socks : LoopHandlerDone(s)
    \/ \E s \in Socks : LoopFail(s)
    \/ \E s \in Socks : LoopCleanup(s)
    \/ NatsMsg
    \/ NatsHandlerDone

SpecDispatch == Init /\ [][NextDispatch]_vars

\* the caller builds the handler table with register() and deregister(),
\* then makes one subscribe() call whose connects succeed; the 'authorized'
\* event and one feed message are dispatched on the table as built
TableRegister ==
    /\ \A t \in Subs : sub[t].pc = "idle"
    /\ RegisterUpTo(MaxTableOps)

TableDeregister ==
    /\ \A t \in Subs : sub[t].pc = "idle"
    /\ DeregisterUpTo(MaxTableOps)

NextTable ==
    \/ TableRegister
    \/ TableDeregister
    \/ SubscribeCall(1)
    \/ SubSendDone(1)
    \/ SubConnected(1)
    \/ SubAuthRecv(1)
    \/ SubHandlerDone(1)
    \/ NatsConnected(1)
    \/ NatsMsg
    \/ NatsHandlerDone

SpecTable == Init /\ [][NextTable]_vars

\* the caller registers its handlers, then makes one subscribe() call whose
\* connects succeed; the sockets deliver messages one after the other
RegisterBefore ==
    /\ \A t \in Subs : sub[t].pc = "idle"
    /\ Register

NextOrder ==
    \/ RegisterBefore
    \/ SubscribeCall(1)
    \/ SubSendDone(1)
    \/ SubConnected(1)
    \/ SubAuthRecv(1)
    \/ SubHandlerDone(1)
    \/ NatsConnected(1)
    \/ \E s \in Socks : LoopRecvUpTo(s, MaxOrderMsg)
    \/ \E s \in Socks : LoopHandlerDone(s)
    \/ \E s \in Socks : LoopFail(s)
    \/ \E s \in Socks : LoopCleanup(s)

SpecOrder == Init /\ [][NextOrder]_vars

\* ------------------------------------------- the classifier on its own
\* channel names are built from the prefixes and from pieces of them
Fragments ==
    NatsPrefixes \cup DataPrefixes \cup
    { <<"A">>, <<"A", "M">>, <<"Q">>, <<"x">>, <<".">>, <<"/">>,
      <<"b", "a", "r", "s">> }

RECURSIVE Concat(_)
Concat(frags) == IF frags = <<>> THEN <<>> ELSE Head(frags) \o Concat(Tail(frags))

ClassifyAppend ==
    /\ cl_out = "none"
    /\ Len(cl_frags) < MaxFrag
    /\ \E f \in Fragments : cl_frags' = Append(cl_frags, f)
    /\ UNCHANGED <<cl_out, rvars>>

ClassifyName ==
    /\ cl_out = "none"
    /\ cl_out' = Classify(Concat(cl_frags))
    /\ UNCHANGED <<cl_frags, rvars>>

NextClassify == ClassifyAppend \/ ClassifyName

SpecClassify == Init /\ [][NextClassify]_vars


\* ================================================================ claims
\* the listen requests written to socket s, in order
Listens(s) == SelectSeq(socks[s].sent, LAMBDA r : r.action = "listen")

\* the sockets that were connected to the endpoint of class c
SocksOf(c) == {s \in Socks : socks[s].state # "free" /\ socks[s].endpoint = c}

LiveSocksOf(c) == {s \in SocksOf(c) : socks[s].state = "open"}

OnlyFirstCall == \A t \in Subs \ {1} : sub[t].pc = "idle"

\* the channels of class c among those the first call asked for, in the
\* order they were asked for
Requested(c) == SelectSeq(sub[1].channels, LAMBDA x : Classify(x) = c)

\* C1: one subscribe(channels) on a fresh router whose connects and
\* handshakes succeed issues, for each class with a non-empty partition,
\* exactly one listen request (events, data) or one feed subscribe call,
\* on that class's own connection, carrying exactly that partition in the
\* requested order; for an empty partition no connection is opened and no
\* request is sent.  While the call runs no other request is written.
C1_SubscribeRoundTrip ==
    OnlyFirstCall =>
      /\ \A s \in Socks :
           /\ Len(Listens(s)) <= 1
           /\ \A i \in 1..Len(Listens(s)) :
                Listens(s)[i] = ListenReq(Requested(socks[s].endpoint))
      /\ sub[1].pc = "done" =>
           /\ \A c \in {"events", "data"} :
                IF Requested(c) = <<>> THEN SocksOf(c) = {}
                ELSE /\ Cardinality(SocksOf(c)) = 1
                     /\ \A s \in SocksOf(c) : Len(Listens(s)) = 1
           /\ IF Requested("feed") = <<>>
              THEN polygon = None /\ feed.subs = <<>>
              ELSE feed.subs = <<[channels |-> Requested("feed"), state |-> "connected"]>>

\* a completed first call that asked for all three classes, two channels
\* of one class among them
C1_Witness ==
    /\ OnlyFirstCall
    /\ sub[1].pc = "done"
    /\ Len(sub[1].channels) = 4
    /\ \E s \in SocksOf("events") : Len(Listens(s)) = 1 /\ Len(Listens(s)[1].streams) = 2

\* C2 (as claimed): every listen request is written to a socket connected
\* to the endpoint of the class of the channels it carries, whatever the
\* order of the subscribe calls (here: calls made one after the other)
C2_ListenOnOwnSocket ==
    ~count.overlap =>
      \A s \in Socks : \A i \in 1..Len(Listens(s)) :
        \A j \in 1..Len(Listens(s)[i].streams) :
          Classify(Listens(s)[i].streams[j]) = socks[s].endpoint


\* the channels of class c among those call t asked for
RequestedBy(t, c) == SelectSeq(sub[t].channels, LAMBDA x : Classify(x) = c)

\* C3 (as claimed): once every subscribe call has succeeded and one close()
\* has then run to its end, no socket the router opened and no feed client
\* it connected is still open
C3_CloseClosesEverything ==
    ( /\ count.close = 1
      /\ closer.pc = "idle"
      /\ closer.run = 1
      /\ \A t \in Subs : sub[t].pc \in {"idle", "done"} )
    =>
    ( /\ \A s \in Socks : socks[s].state # "open"
      /\ feed.state \notin {"created", "connected"} )

\* C4 (as claimed): at most one live (opened and not closed) connection
\* per class in every reachable state, overlapping subscribe calls included
C4_OneLiveConnectionPerClass ==
    /\ \A c \in {"events", "data"} : Cardinality(LiveSocksOf(c)) <= 1
    /\ feed.regs <= 1

\* the answer to the authenticate request of socket s was read and has no
\* data payload or a status other than "authorized"
Refused(s) ==
    /\ socks[s].resp # NoMsg
    /\ ~socks[s].resp.has_data \/ socks[s].resp.status # "authorized"

RefusedAfter(s) ==
    /\ socks'[s].resp # NoMsg
    /\ ~socks'[s].resp.has_data \/ socks'[s].resp.status # "authorized"

\* C5: when the authenticate answer has no data payload or a status other
\* than "authorized", the subscribe that asked fails with the
\* authentication error, the socket is never stored in a handle, no
\* "authorized" event is dispatched for it and no read loop is started for
\* it; the step that reads the answer changes no handle, and the handle of
\* that class is still absent unless an overlapping call has set it
C5_AuthFailureLeavesNotOpen ==
    [][ \A s \in Socks :
          RefusedAfter(s) =>
            /\ ws' # s
            /\ data_ws' # s
            /\ socks'[s].loop = "none"
            /\ socks'[s].authorized = 0
            /\ sub'[socks'[s].by].pc = "failed"
            /\ sub'[socks'[s].by].err = "ValueError"
            /\ ~Refused(s) =>
                 /\ ws' = ws
                 /\ data_ws' = data_ws
                 /\ polygon' = polygon
                 /\ ~count.overlap =>
                      (IF socks[s].endpoint = "events" THEN ws' ELSE data_ws') = None
      ]_vars

\* a refused socket whose subscribe has failed, for either refusal
C5_Witness ==
    /\ \E s \in Socks : Refused(s) /\ ~socks[s].resp.has_data /\ socks[s].endpoint = "data"
    /\ \E s \in Socks : Refused(s) /\ socks[s].resp.has_data /\ socks[s].endpoint = "events"

\* C6 (as claimed): when a subscribe call has ended, by returning or by
\* raising, the ensure/send sequence of every non-empty partition of its
\* channels was attempted
C6_EveryPartitionAttempted ==
    \A t \in Subs :
      sub[t].pc \in {"done", "failed"} =>
        \A c \in {"events", "data", "feed"} :
          RequestedBy(t, c) # <<>> => c \in sub[t].attempted

\* the sockets and read loops, the "authorized" dispatches and the feed
\* client's registrations: what a connect makes
Connections ==
    [s \in Socks |-> <<socks[s].state # "free", socks[s].loop # "none",
                       socks[s].authorized, Len(socks[s].sent) - Len(Listens(s))>>]

ConnectionsAfter ==
    [s \in Socks |-> <<socks'[s].state # "free", socks'[s].loop # "none",
                       socks'[s].authorized,
                       Len(socks'[s].sent)
                         - Len(SelectSeq(socks'[s].sent, LAMBDA r : r.action = "listen"))>>]

RECURSIVE SumLen(_, _)
SumLen(f, S) ==
    IF S = {} THEN 0
    ELSE LET x == CHOOSE y \in S : TRUE IN Len(f[x]) + SumLen(f, S \ {x})

\* C7: a subscribe that finds the handle of a class set makes no transport
\* connect, sends no authenticate request, dispatches no "authorized"
\* event, starts no read loop and registers nothing with the feed client
\* for that class; the step in which it finds the handle set writes at
\* most the one listen request (or makes the one feed subscribe call)
C7_EnsureConnectedIdempotent ==
    [][ /\ \A s \in Socks :
             socks'[s].state # "free" =>
               socks'[s].endpoint \notin sub'[socks'[s].by].foundOpen
        /\ feed'.by # 0 => "feed" \notin sub'[feed'.by].foundOpen
        /\ feed'.regs <= 1
        /\ \A t \in Subs :
             sub'[t].foundOpen # sub[t].foundOpen =>
               /\ ConnectionsAfter = Connections
               /\ feed'.regs = feed.regs
               /\ feed'.state = feed.state
               /\ SumLen([s \in Socks |-> socks'[s].sent], Socks) + Len(feed'.subs)
                    <= SumLen([s \in Socks |-> socks[s].sent], Socks) + Len(feed.subs) + 1
      ]_vars

\* a later call found all three classes open and wrote only its requests
C7_Witness ==
    \E t \in Subs :
      /\ sub[t].pc = "done"
      /\ sub[t].foundOpen = {"events", "data", "feed"}
      /\ NumSocks(Cur) = 2
      /\ Len(feed.subs) = 2


\* how often the dispatch of iteration it has awaited the handler of pat
CallsOf(it, pat) == Cardinality({k \in 1..Len(it.calls) : it.calls[k].pat = pat})

\* C8: a dispatch (_dispatch or _dispatch_nats) during which no handler
\* raises and the table is not mutated awaits the handler of every entry
\* whose pattern matches the routing key exactly once, and never the
\* handler of an entry whose pattern does not match
C8_DispatchFanOut ==
    \A d \in Dispatchers :
      LET it == disp[d]
      IN (it.st \in {"handler", "end"} /\ ~it.mutated) =>
           /\ \A i \in 1..Len(it.table) :
                it.table[i].live =>
                  /\ CallsOf(it, it.table[i].pat) <= 1
                  /\ ~Match(it.table[i].pat, it.channel) =>
                       CallsOf(it, it.table[i].pat) = 0
                  /\ (it.st = "end" /\ Match(it.table[i].pat, it.channel)) =>
                       CallsOf(it, it.table[i].pat) = 1
           /\ \A k \in 1..Len(it.calls) :
                /\ it.calls[k].channel = it.channel
                /\ \E i \in 1..Len(it.table) :
                     /\ it.table[i].live
                     /\ it.table[i].pat = it.calls[k].pat
                     /\ it.table[i].func = it.calls[k].func

\* two distinct patterns, both matching the subject "T.AAPL", each awaited
\* once by a finished feed dispatch
C8_Witness ==
    /\ disp[DNats].st = "end"
    /\ ~disp[DNats].mutated
    /\ disp[DNats].channel = s_T_AAPL
    /\ Len(disp[DNats].calls) = 2
    /\ disp[DNats].calls[1].pat # disp[DNats].calls[2].pat

\* the prefix table of the specification, character by character
FeedRule(nm) ==
    \/ Len(nm) >= 2 /\ nm[1] \in {"Q", "T", "A"} /\ nm[2] = "."
    \/ Len(nm) >= 3 /\ nm[1] = "A" /\ nm[2] = "M" /\ nm[3] = "."

DataRule(nm) ==
    \/ Len(nm) >= 5 /\ nm[1] = "b" /\ nm[2] = "a" /\ nm[3] = "r" /\ nm[4] = "s" /\ nm[5] = "/"
    \/ Len(nm) >= 4 /\ nm[1] = "i" /\ nm[2] = "e" /\ nm[3] = "x" /\ nm[4] = "/"
    \/ Len(nm) >= 4 /\ nm[1] = "s" /\ nm[2] = "i" /\ nm[3] = "p" /\ nm[4] = "/"

\* C9: a channel name is of the feed class iff it starts with Q., T., A.
\* or AM.; otherwise of the data class iff it starts with bars/, iex/ or
\* sip/; otherwise of the events class.  Only the start of the name counts
C9_ClassifierPrefixRules ==
    cl_out # "none" =>
      cl_out = IF FeedRule(Concat(cl_frags)) THEN "feed"
               ELSE IF DataRule(Concat(cl_frags)) THEN "data"
               ELSE "events"

\* a name with a feed prefix after its first character is an events name
C9_Witness ==
    /\ cl_frags = << <<"x">>, <<"T", ".">> >>
    /\ cl_out = "events"

\* C10: in a run of close() calls with no subscribe step in between, a
\* call after the first raises nothing and closes nothing; no close()
\* raises
C10_CloseIdempotent ==
    /\ ~closer.raised
    /\ closer.second = {}
    /\ ~closer.secondFeed

\* a second close() has returned after the first one closed the events
\* socket (closed, its read loop not yet told) and the feed client
C10_Witness ==
    /\ count.close = 2
    /\ closer.run = 2
    /\ closer.pc = "idle"
    /\ ws # None
    /\ socks[ws].state = "closed"
    /\ socks[ws].loop = "running"
    /\ feed.state = "closed"

\* the entries of a handler table: its (pattern, handler) pairs
Entries(tbl) == {<<tbl[i].pat, tbl[i].func>> : i \in {j \in 1..Len(tbl) : tbl[j].live}}

\* C11: register(pattern, handler) with a handler that is not a coroutine
\* function raises ValueError at once and leaves the handler table as it
\* was: no entry is added, an entry for the same pattern keeps its handler,
\* and no running dispatch sees a change
C11_RegisterRejectsNonAsync ==
    [][ ( /\ count'.reg # count.reg
          /\ count'.last.op = "register"
          /\ count'.last.func = "plain_func" )
        =>
        ( /\ count'.regErr = "ValueError"
          /\ handlers' = handlers
          /\ disp' = disp )
      ]_vars

\* a plain function was refused for a pattern that has an entry
C11_Witness ==
    /\ count.last.op = "register"
    /\ count.last.func = "plain_func"
    /\ count.regErr = "ValueError"
    /\ \E e \in Entries(handlers) : e[1] = Compile(count.last.text)

\* the entries of a table other than the one for key
Others(tbl, key) == {e \in Entries(tbl) : e[1] # key}

\* C18: deregister(pattern) removes the entry whose key is that pattern
\* and no other, and raises KeyError and changes nothing when there is no
\* such entry; register(pattern, h) puts (pattern, h) in place of any
\* entry of that pattern and touches no other; the table never holds two
\* entries of one pattern, and a dispatch awaits only handlers that are in
\* the table, so none that was deregistered before it
C18_DeregisterRemovesExactly ==
    [][ LET key == Compile(count'.last.text)
            called == count'.reg # count.reg
        IN /\ \A i, j \in 1..Len(handlers') :
                (handlers'[i].live /\ handlers'[j].live
                   /\ handlers'[i].pat = handlers'[j].pat) => i = j
           /\ (called /\ count'.last.op = "deregister") =>
                IF \E e \in Entries(handlers) : e[1] = key
                THEN /\ count'.regErr = "none"
                     /\ Entries(handlers') = Others(handlers, key)
                ELSE /\ count'.regErr = "KeyError"
                     /\ handlers' = handlers
           /\ (called /\ count'.last.op = "register"
                      /\ count'.last.func # "plain_func") =>
                /\ count'.regErr = "none"
                /\ Entries(handlers') =
                     Others(handlers, key) \cup {<<key, count'.last.func>>}
           /\ \A d \in Dispatchers : \A k \in 1..Len(disp'[d].calls) :
                <<disp'[d].calls[k].pat, disp'[d].calls[k].func>> \in Entries(handlers')
      ]_vars

\* after two registrations that both match "authorized", the first was
\* deregistered; the "authorized" dispatch awaited the other handler only
C18_Witness ==
    /\ count.last.op = "deregister"
    /\ count.regErr = "none"
    /\ Match(Compile(count.last.text), s_authorized)
    /\ Used(handlers) = 1
    /\ ~handlers[1].live
    /\ disp[DSub(1)].st = "end"
    /\ Len(disp[DSub(1)].calls) = 1

\* C12 (as claimed): the two handle fields never name the same socket, and
\* the events handle only ever names a socket connected to the events
\* endpoint
C12_HandlesDistinct ==
    /\ (ws # None /\ data_ws # None) => ws # data_ws
    /\ ws # None => socks[ws].endpoint = "events"

\* C13 (as claimed): the step in which the read loop of socket s finishes
\* its cleanup leaves s closed, clears the handle of the class of s and
\* changes no other handle, so that the handle of that class no longer
\* names s
C13_LoopEndClearsOwnHandle ==
    [][ \A s \in Socks :
          (socks[s].loop = "closing" /\ socks'[s].loop = "done") =>
            /\ socks'[s].state = "closed"
            /\ polygon' = polygon
            /\ IF socks[s].endpoint = "events"
               THEN ws' = None /\ data_ws' = data_ws
               ELSE data_ws' = None /\ ws' = ws
      ]_vars

\* C14 (as claimed): with subscribe() calls made one after the other, a
\* subscribe for a class fails on a closed socket only when a socket of
\* that class has been closed: the end of another class's connection does
\* not make it send on a closed or foreign socket
C14_FailureStaysLocal ==
    ~count.overlap =>
      \A t \in Subs :
        (sub[t].pc = "failed" /\ sub[t].err = "ConnectionClosed") =>
          \E s \in SocksOf(sub[t].cls) : socks[s].state = "closed"

\* C15 (as claimed): a dispatch during which register() or deregister()
\* ran while it was suspended in a handler does not fail, and when it ends
\* it has awaited every matching handler that was in the table when it
\* started exactly once
C15_TableSafeDuringMutation ==
    \A d \in Dispatchers :
      LET it == disp[d]
      IN it.mutated =>
           /\ it.error # "RuntimeError"
           /\ it.st = "end" =>
                \A i \in 1..Len(it.table) :
                  (it.table[i].live /\ Match(it.table[i].pat, it.channel)) =>
                    Cardinality({k \in 1..Len(it.calls) :
                                   it.calls[k].pat = it.table[i].pat}) = 1

\* what the read loop of a socket did, in order: "recv" a message with a
\* stream key, "skip" a message without one, "call" a handler, and the
\* handler's "ret" or "raise"
OrderedLog(L) ==
    \A i \in 1..Len(L) :
      /\ L[i] \in {"recv", "skip"} => (i = 1 \/ L[i - 1] \in {"recv", "skip", "ret"})
      /\ L[i] = "call" => (i > 1 /\ L[i - 1] \in {"recv", "ret"})
      /\ L[i] \in {"ret", "raise"} => (i > 1 /\ L[i - 1] = "call")

\* C16: a read loop takes the next message only when the dispatch of the
\* message before has awaited its last matching handler, so the handler
\* calls of an earlier message all come before those of a later one; a
\* message without a stream key starts no dispatch and leaves the loop
\* running on the open socket
C16_DispatchInOrder ==
    [][ \A s \in Socks :
          /\ OrderedLog(socks'[s].log)
          /\ ( /\ Len(socks'[s].log) > Len(socks[s].log)
               /\ socks'[s].log[Len(socks[s].log) + 1] \in {"recv", "skip"} )
             => /\ disp[DLoop(s)].st \in {"idle", "end"}
                /\ socks[s].loop = "running"
                /\ socks'[s].log[Len(socks[s].log) + 1] = "skip" =>
                     /\ socks'[s].loop = "running"
                     /\ socks'[s].state = "open"
                     /\ disp' = disp
      ]_vars

\* a socket delivered a message that two handlers took, one after the
\* other, then a message without a stream key, then a message that the
\* same two handlers took
C16_Witness ==
    \E s \in Socks :
      socks[s].log = <<"recv", "call", "ret", "call", "ret", "skip",
                       "recv", "call", "ret", "call", "ret">>

\* C17 (as claimed): each authenticated socket gets one "authorized"
\* dispatch, made before its read loop starts and while the connection of
\* its class is marked open (the handle of the class is set); a subscribe
\* that opened no socket dispatches no "authorized" event
C17_AuthorizedOnceWhenOpen ==
    ~count.overlap =>
      /\ \A s \in Socks :
           /\ socks[s].authorized <= 1
           /\ socks[s].loop # "none" => socks[s].authorized = 1
      /\ \A t \in Subs :
           /\ disp[DSub(t)].st # "idle" => sub[t].sock # None
           /\ sub[t].pc = "handler" => Handle(Cur, sub[t].cls) # None

\* C19 (as claimed): while no subscribe() is in progress, a socket named by
\* a handle has a read loop that was started and has not finished its
\* cleanup
C19_HandleHasLoop ==
    (\A t \in Subs : ~InProgress(sub[t].pc)) =>
      \A c \in {"events", "data"} :
        Handle(Cur, c) # None =>
          socks[Handle(Cur, c)].loop \in {"running", "handler", "closing"}

\* C20 (as claimed): with subscribe() calls made one after the other, every
\* subscribe call on the feed client is made on a client whose connect has
\* completed, and the catch-all handler is registered at most once
C20_FeedSubscribeAfterConnect ==
    ~count.overlap =>
      /\ \A i \in 1..Len(feed.subs) : feed.subs[i].state = "connected"
      /\ feed.regs <= 1

====
